---- MODULE Spec2Model ----
(***************************************************************************)
(* Stream Deck controller: the page renderer with its hash-keyed cache,    *)
(* the navigation manager, the entity-state tracker and the config/set     *)
(* handler, as one state machine.  Every asynchronous handler is a task    *)
(* that runs from one real await (device write, icon fetch, font load) to  *)
(* the next in one step; steps of different tasks interleave, as they do   *)
(* on the Node.js event loop.                                              *)
(***************************************************************************)
EXTENDS Integers, Sequences, FiniteSets, TLC

\* ------------------------------------------------------------------ bounds
NumKeys == 2
MaxEvents == 3
MaxTasks == 2
MaxSockets == 2
MaxFaults == 2
MaxUpdates == 2
MaxCalls == 1
MaxPushes == 1

\* --------------------------------------------------------------- constants
ICON_SIZE == 72
DefaultBrightness == 50
IconPadding == 8

\* ------------------------------------------------------------------ colours
\* A colour string "#rrggbb" is the tuple of its six hex digits; the absent
\* (undefined) colour is the empty tuple.
NoColor == << >>
White == <<15, 15, 15, 15, 15, 15>>
Black == <<0, 0, 0, 0, 0, 0>>
DefaultBg == <<3, 3, 3, 3, 3, 3>>
OffBg == <<1, 10, 1, 10, 1, 10>>
OffIcon == <<6, 6, 6, 6, 6, 6>>
OffText == <<8, 8, 8, 8, 8, 8>>
OnGreen == <<1, 10, 5, 15, 1, 10>>
Red == <<15, 15, 0, 0, 0, 0>>
NoRgb == << >>

\* parseInt(c.substr(1,2),16), parseInt(c.substr(3,2),16), parseInt(c.substr(5,2),16)
ParseHex(c) == <<16 * c[1] + c[2], 16 * c[3] + c[4], 16 * c[5] + c[6]>>

Max(a, b) == IF a >= b THEN a ELSE b
Min(a, b) == IF a <= b THEN a ELSE b
Abs(a) == IF a >= 0 THEN a ELSE 0 - a

\* Math.round(num/den) for num >= 0, den > 0
RoundDiv(num, den) == (2 * num + den) \div (2 * den)

\* toHex(num/den): clamp(round(value)) as two hex digits
toHex(num, den) ==
    LET clamped == Max(0, Min(255, RoundDiv(num, den)))
    IN  <<clamped \div 16, clamped % 16>>

\* ------------------------------------------------------------------- types
\* The value of a command action that carries none.
NoValue == -1
NoAction == [type |-> "none", page |-> "", command |-> "", domain |-> "", name |-> "",
             value |-> NoValue]
Navigate(p) == [NoAction EXCEPT !.type = "navigate", !.page = p]
Command(c) == [NoAction EXCEPT !.type = "command", !.command = c]
CommandV(c, v) == [Command(c) EXCEPT !.value = v]
Ha(d, n) == [NoAction EXCEPT !.type = "ha", !.domain = d, !.name = n]
Mqtt(topic) == [NoAction EXCEPT !.type = "mqtt", !.name = topic]

\* An entity id "domain.name"; the absent id has an empty domain.
NoEntity == [domain |-> "", name |-> ""]
Entity(d, n) == [domain |-> d, name |-> n]
LightA == Entity("light", "a")
SwitchB == Entity("switch", "b")
Entities == {LightA, SwitchB}

\* An icon descriptor "scheme:name"; the absent icon has an empty scheme.
NoIcon == [scheme |-> "", name |-> ""]
Icon(s, n) == [scheme |-> s, name |-> n]

Button(k, t, ic, col, act, track, ent) ==
    [key |-> k, text |-> t, icon |-> ic, color |-> col, iconColor |-> NoColor,
     textColor |-> NoColor, titleAlign |-> "", action |-> act,
     useEntityState |-> track, stateEntity |-> ent]

\* Entity states pushed by Home Assistant.  brightness -1, rgb/hs << >> and
\* color_temp 0 stand for an absent attribute.
EntityState(s, b, rgb, hs, ct) ==
    [state |-> s, brightness |-> b, rgb_color |-> rgb, hs_color |-> hs, color_temp |-> ct]
StOff == EntityState("off", -1, NoRgb, NoRgb, 0)
StRed == EntityState("on", 128, <<255, 0, 0>>, NoRgb, 0)
StOn == EntityState("on", -1, NoRgb, NoRgb, 0)
PushedStates == {StOff, StRed}
\* The same, and an entity that cannot be reached or whose state is not known.
RenderStates ==
    PushedStates \cup {EntityState(s, -1, NoRgb, NoRgb, 0) : s \in {"unavailable", "unknown"}}

\* States of a light: off, and on with a brightness that is absent, zero or
\* half, and with a colour given as rgb, as hue and saturation, as a colour
\* temperature, in all three ways at once, or not at all.
Dim == <<1, 1, 1>>
Pale == <<255, 254, 255>>
LightStates ==
    {StOff, StRed, StOn,
     EntityState("on", -1, <<255, 0, 0>>, NoRgb, 0),
     EntityState("on", 0, <<255, 0, 0>>, NoRgb, 0),
     EntityState("on", 128, NoRgb, <<200, 50>>, 0),
     EntityState("on", -1, NoRgb, NoRgb, 300),
     EntityState("on", 0, NoRgb, NoRgb, 0),
     EntityState("on", 0, Dim, <<0, 100>>, 200),
     EntityState("on", 128, Dim, <<0, 100>>, 200),
     EntityState("on", 128, Pale, NoRgb, 0)}

\* -------------------------------------------------------- computeLightStyle
\* A brightness factor without the floor of 0.3.
BrightnessUnfloored(st) ==
    IF st.brightness < 0 THEN <<1, 1>> ELSE <<st.brightness, 255>>

\* Brightness factor max(0.3, brightness/255), or 1, as a fraction <<num, den>>.
BrightnessFactor(st) ==
    IF st.brightness < 0 THEN <<1, 1>>
    ELSE IF st.brightness * 10 < 3 * 255 THEN <<3, 10>>
    ELSE <<st.brightness, 255>>

hsToRgb(h, sPct) ==
    LET t == 60 - Abs((h % 120) - 60)
        cc == 255
        xx == RoundDiv(255 * (6000 - 60 * sPct + sPct * t), 6000)
        zz == RoundDiv(255 * (100 - sPct), 100)
    IN  IF h < 60 THEN <<cc, xx, zz>>
        ELSE IF h < 120 THEN <<xx, cc, zz>>
        ELSE IF h < 180 THEN <<zz, cc, xx>>
        ELSE IF h < 240 THEN <<zz, xx, cc>>
        ELSE IF h < 300 THEN <<xx, zz, cc>>
        ELSE <<cc, zz, xx>>

colorTempToRgb(mired) ==
    IF 1000000 <= 4000 * mired THEN <<255, 180, 100>>
    ELSE IF 1000000 <= 5500 * mired THEN <<255, 240, 220>>
    ELSE <<200, 220, 255>>

LightColor(st) ==
    IF st.rgb_color # NoRgb THEN st.rgb_color
    ELSE IF st.hs_color # NoRgb THEN hsToRgb(st.hs_color[1], st.hs_color[2])
    ELSE IF st.color_temp # 0 THEN colorTempToRgb(st.color_temp)
    ELSE NoRgb

\* A style whose contrast colour looks at the light's colour alone.
LightOnStyleUndimmed(f, lc, onIcon) ==
    IF lc # NoRgb
    THEN LET bright == 2 * (299 * lc[1] + 587 * lc[2] + 114 * lc[3]) > 1000 * 255
             contrast == IF bright THEN Black ELSE White
         IN  [color |-> toHex(lc[1] * f[1], f[2]) \o toHex(lc[2] * f[1], f[2])
                           \o toHex(lc[3] * f[1], f[2]),
              iconColor |-> contrast, textColor |-> contrast, icon |-> onIcon]
    ELSE LET level == (f[1] * 255) \div f[2]
         IN  [color |-> toHex(level, 1) \o toHex(level * 9, 10) \o toHex(level * 7, 10),
              iconColor |-> Black, textColor |-> Black, icon |-> onIcon]

\* computeLightStyle for a light that is on: f is the brightness factor, lc
\* the light's colour (NoRgb when it reports none).
LightOnStyle(f, lc, onIcon) ==
    IF lc # NoRgb
    THEN LET bright == 2 * f[1] * (299 * lc[1] + 587 * lc[2] + 114 * lc[3])
                          > 1000 * 255 * f[2]
             contrast == IF bright THEN Black ELSE White
         IN  [color |-> toHex(lc[1] * f[1], f[2]) \o toHex(lc[2] * f[1], f[2])
                           \o toHex(lc[3] * f[1], f[2]),
              iconColor |-> contrast, textColor |-> contrast, icon |-> onIcon]
    ELSE LET level == (f[1] * 255) \div f[2]
         IN  [color |-> toHex(level, 1) \o toHex(level * 9, 10) \o toHex(level * 7, 10),
              iconColor |-> Black, textColor |-> Black, icon |-> onIcon]

\* A style that takes only a light that is off for dark.
computeLightStyleOffOnly(hasState, st, base) ==
    IF ~hasState \/ st.state = "off"
    THEN [color |-> OffBg, iconColor |-> OffIcon, textColor |-> OffText,
          icon |-> IF base.icon # NoIcon THEN base.icon ELSE Icon("ph", "lightbulb")]
    ELSE LightOnStyle(BrightnessFactor(st), LightColor(st),
                      IF base.icon # NoIcon THEN base.icon
                      ELSE Icon("ph", "lightbulb-filament"))

\* hasState is FALSE when the tracker holds no state for the entity.
computeLightStyle(hasState, st, base) ==
    IF ~hasState \/ st.state \in {"off", "unavailable", "unknown"}
    THEN [color |-> OffBg, iconColor |-> OffIcon, textColor |-> OffText,
          icon |-> IF base.icon # NoIcon THEN base.icon ELSE Icon("ph", "lightbulb")]
    ELSE LightOnStyle(BrightnessFactor(st), LightColor(st),
                      IF base.icon # NoIcon THEN base.icon
                      ELSE Icon("ph", "lightbulb-filament"))

\* ------------------------------------------------------------ tracked entity
\* button.stateEntity || (action.type === 'ha' ? action.entityId : undefined)
TrackedEntityOf(b) ==
    IF b.stateEntity # NoEntity THEN b.stateEntity
    ELSE IF b.action.type = "ha" THEN Entity(b.action.domain, b.action.name)
    ELSE NoEntity

\* { ...button, ...style }
WithStyle(b, style) ==
    [b EXCEPT !.color = style.color, !.iconColor = style.iconColor,
              !.textColor = style.textColor, !.icon = style.icon]

\* PageRenderer.getEffectiveConfig; states is the tracker's latest-value map.
getEffectiveConfig(b, states) ==
    LET e == TrackedEntityOf(b)
        has == e \in DOMAIN states
        st == IF has THEN states[e] ELSE StOff
    IN  IF ~b.useEntityState \/ e = NoEntity THEN b
        ELSE IF e.domain = "light" THEN WithStyle(b, computeLightStyle(has, st, b))
        ELSE IF has /\ st.state = "on"
        THEN [b EXCEPT !.color = IF b.color # NoColor THEN b.color ELSE OnGreen,
                       !.iconColor = White, !.textColor = White]
        ELSE [b EXCEPT !.color = OffBg, !.iconColor = OffIcon, !.textColor = OffText]

\* -------------------------------------------------------------- rendering
Or(c, d) == IF c # NoColor THEN c ELSE d

\* A hash input that leaves the background colour out.
getButtonHashNoColor(eff) ==
    [text |-> eff.text, icon |-> eff.icon, color |-> DefaultBg,
     iconColor |-> Or(eff.iconColor, White), textColor |-> Or(eff.textColor, White),
     titleAlign |-> IF eff.titleAlign # "" THEN eff.titleAlign ELSE "middle",
     size |-> ICON_SIZE]

\* PageRenderer.getButtonHash: the md5 input, with the defaults substituted.
getButtonHash(eff) ==
    [text |-> eff.text, icon |-> eff.icon, color |-> Or(eff.color, DefaultBg),
     iconColor |-> Or(eff.iconColor, White), textColor |-> Or(eff.textColor, White),
     titleAlign |-> IF eff.titleAlign # "" THEN eff.titleAlign ELSE "middle",
     size |-> ICON_SIZE]

\* A rendered buffer, described by its layers.
Blank == [bg |-> NoRgb, icon |-> NoIcon, tint |-> NoRgb, inset |-> 0, text |-> "",
          textRgb |-> NoRgb, y |-> "", size |-> 0]
Solid(bgColor) == [Blank EXCEPT !.bg = ParseHex(bgColor), !.size = ICON_SIZE]

PhosphorIcons == {"lightbulb", "lightbulb-filament", "gear", "arrow-left"}

\* IconManager.getIconJimp; fetched says whether reading a local: or http
\* image succeeded.
getIconJimp(icon, bgColor, iconColor, fetched) ==
    IF icon = NoIcon THEN Solid(bgColor)
    ELSE IF icon.scheme = "ph"
    THEN IF icon.name \in PhosphorIcons
         THEN [Solid(bgColor) EXCEPT !.icon = icon, !.tint = ParseHex(iconColor),
                                     !.inset = IconPadding]
         ELSE Solid(bgColor)
    ELSE IF icon.scheme \in {"local", "http"}
    THEN IF fetched
         THEN [Blank EXCEPT !.icon = icon, !.size = ICON_SIZE]
         ELSE Solid(bgColor)
    ELSE Solid(bgColor)

\* The text pass of renderButtonToBuffer over image img.
printText(img, eff, textColor) ==
    IF eff.text # ""
    THEN [img EXCEPT !.text = eff.text,
                     !.textRgb = IF textColor # White THEN ParseHex(textColor)
                                 ELSE <<255, 255, 255>>,
                     !.y = IF eff.titleAlign \in {"top", "bottom"} THEN eff.titleAlign
                           ELSE "middle"]
    ELSE img

\* PageRenderer.renderButtonToBuffer
renderButtonToBuffer(eff, fetched) ==
    IF eff.text # "" \/ eff.icon # NoIcon
    THEN printText(getIconJimp(eff.icon, Or(eff.color, DefaultBg), Or(eff.iconColor, White),
                               fetched),
                   eff, Or(eff.textColor, White))
    ELSE Solid(Or(eff.color, DefaultBg))

\* Whether rendering awaits real I/O (font load, image decode or fetch).
NeedsIO(eff) == eff.text # "" \/ eff.icon # NoIcon

\* Whether the outcome of resolving the icon is decided outside the program.
Fetches(eff) == eff.icon.scheme \in {"local", "http"}

\* ----------------------------------------------------------- configurations
NoButton == Button(-1, "", NoIcon, NoColor, NoAction, FALSE, NoEntity)
Logo == Icon("http", "logo.png")

bMenu == Button(0, "Menu", Logo, NoColor, Navigate("system"), FALSE, NoEntity)
bLamp == Button(1, "", NoIcon, NoColor, Ha("light", "a"), TRUE, NoEntity)
\* On the system page the button lists are not in key order: the button of
\* key 1 comes first (as with key 14 in config/default.ts).
bBack == Button(1, "Menu", Logo, DefaultBg, Navigate("default"), FALSE, NoEntity)
bGhost == Button(0, "", NoIcon, Red, Navigate("ghost"), FALSE, NoEntity)
bClear == Button(0, "", NoIcon, Red, Command("clear"), FALSE, NoEntity)
bPlug == Button(1, "", Icon("ph", "gear"), NoColor, NoAction, TRUE, SwitchB)

NoDoc == [brightness |-> -1, pages |-> << >>]
emptyConfig == [brightness |-> -1, pages |-> [default |-> << >>]]
CfgA == [brightness |-> 80,
         pages |-> [default |-> <<bMenu, bLamp>>, system |-> <<bBack, bGhost>>]]
CfgB == [brightness |-> -1, pages |-> [default |-> <<bClear, bPlug>>]]
CfgC == [brightness |-> 150, pages |-> [default |-> <<bClear, bPlug>>]]

\* Two pages whose key 0 leads to the other page.
bToSystem == Button(0, "", NoIcon, OnGreen, Navigate("system"), FALSE, NoEntity)
bToDefault == Button(0, "", NoIcon, Red, Navigate("default"), FALSE, NoEntity)
CfgD == [brightness |-> DefaultBrightness,
         pages |-> [default |-> <<bToSystem>>, system |-> <<bToDefault>>]]

\* Configurations of one page whose two keys run commands: the brightness
\* commands with a step or level that is absent, inside the range, beyond it
\* or negative, the commands without a value, and a name that is no command.
Values == {NoValue, 70, 150, -20}
CommandActions ==
    {CommandV(c, v) : c \in {"brightness_up", "brightness_down", "set_brightness"}, v \in Values}
    \cup {Command(c) : c \in {"lcd_on", "lcd_off", "clear", "reboot"}}
bCommand(k, act) == Button(k, "", NoIcon, NoColor, act, FALSE, NoEntity)
CfgKeys(a0, a1) == [brightness |-> DefaultBrightness,
                    pages |-> [default |-> <<bCommand(0, a0), bCommand(1, a1)>>]]
\* One page whose two buttons track a light and a switch and set all three
\* colours themselves.
bTintedLamp == [bLamp EXCEPT !.key = 0, !.color = Red, !.iconColor = Black, !.textColor = Black]
bTintedPlug == [bPlug EXCEPT !.color = Red, !.iconColor = Black, !.textColor = Black]
CfgTinted == [brightness |-> -1, pages |-> [default |-> <<bTintedLamp, bTintedPlug>>]]

\* One page whose keys publish to a topic and call a service.
CfgMix == CfgKeys(Mqtt("lamp/set"), Ha("light", "a"))
KeyConfigs == {CfgD, CfgMix} \cup {CfgKeys(a0, a1) : a0, a1 \in CommandActions}

\* The payloads of config/set messages: JSON that does not parse, JSON
\* without a pages map, and configurations.
Payload(parses, hasPages, doc) == [parses |-> parses, hasPages |-> hasPages, doc |-> doc]
Payloads == {Payload(FALSE, FALSE, NoDoc), Payload(TRUE, FALSE, [NoDoc EXCEPT !.brightness = 80]),
             Payload(TRUE, TRUE, CfgA), Payload(TRUE, TRUE, CfgB), Payload(TRUE, TRUE, CfgC)}

Keys == 0 .. (NumKeys - 1)
PagesOf(cfg) == DOMAIN cfg.pages
PageOf(cfg, p) == IF p \in PagesOf(cfg) THEN cfg.pages[p] ELSE << >>
ButtonsOf(cfg, p) == {PageOf(cfg, p)[n] : n \in 1 .. Len(PageOf(cfg, p))}

\* -------------------------------------------------------------------- state
VARIABLES
    deviceReady,    \* myStreamDeck # null
    navReady,       \* navManager # null
    listening,      \* the 'down' listener is registered
    persisted,      \* config/cached.json: [exists, doc]
    config,         \* NavigationManager.config
    currentPage,    \* NavigationManager.currentPageName
    subscribed,     \* StateManager.subscribedEntities
    entityStates,   \* StateManager.entityStates
    cache,          \* PageRenderer.cache: hash -> buffer
    device,         \* what each key of the device shows
    brightness,     \* the device's brightness, -1 before it is first set
    previousBrightness, \* the brightness lcd_off remembered, -1 when none
    conn,           \* StateManager's connection: ws, isConnected, reconnectTimer, sockets
    tasks,          \* the asynchronous handlers in flight
    acks,           \* the config/status messages published so far
    received,       \* the number of config/set messages delivered so far
    events,         \* the number of external events so far
    last,           \* the event or task step that produced this state
    io              \* the device calls made by that step, in order

vars == <<deviceReady, navReady, listening, persisted, config, currentPage, subscribed,
          entityStates, cache, device, brightness, previousBrightness, conn, tasks, acks,
          received, events, last, io>>

\* ---------------------------------------------------------------- the device
IoEntry(op, k, img, b, t) ==
    [op |-> op, key |-> k, img |-> img, btn |-> b, kind |-> t.kind, stale |-> t.stale]

\* The world a handler acts on: the renderer's cache, the device and the calls made.
World == [cache |-> cache, device |-> device, io |-> << >>]

\* device.clearKey(k), called by task t
clearKey(w, k, t) ==
    [w EXCEPT !.device = IF k \in Keys THEN [@ EXCEPT ![k] = Blank] ELSE @,
              !.io = Append(@, IoEntry("clear", k, Blank, NoButton, t))]

\* device.fillKeyBuffer(b.key, img), called by task t; a key the device does
\* not have is rejected by the driver.
fillKeyBuffer(w, b, img, t) ==
    [w EXCEPT !.device = IF b.key \in Keys THEN [@ EXCEPT ![b.key] = img] ELSE @,
              !.io = Append(@, IoEntry("fill", b.key, img, b, t))]

\* device.setBrightness(percent), called by task t
setBrightness(w, percent, t) ==
    [w EXCEPT !.io = Append(@, IoEntry("brightness", percent, Blank, NoButton, t))]

cacheSet(w, h, img) ==
    [w EXCEPT !.cache = [x \in DOMAIN @ \cup {h} |-> IF x = h THEN img ELSE @[x]]]

\* ------------------------------------------------------------------- tasks
Task(kind, btns, pc, i, cont, cfg) ==
    [kind |-> kind, btns |-> btns, pc |-> pc, i |-> i, eff |-> NoButton, cont |-> cont,
     cfg |-> cfg, stale |-> FALSE, overlapped |-> FALSE, failed |-> {}]
NoTask == Task("none", << >>, "", 0, "none", NoDoc)

\* Where a render stands after its clearKey(k).
AfterClear(t, k) ==
    IF k + 1 < NumKeys THEN [t EXCEPT !.pc = "clear", !.i = k + 1]
    ELSE [t EXCEPT !.pc = "btn", !.i = 1]

\* A handler with nothing left to do and nothing to report is gone.
Finished(t) == t.pc = "btn" /\ t.i > Len(t.btns) /\ t.cont = "none"
Live(ts) == SelectSeq(ts, LAMBDA t : ~Finished(t))

\* cache.set(hash, buffer), then fillKeyBuffer(b.key, buffer), then on to the
\* next button of task t.
storeAndFill(w, b, t, h, img) ==
    <<fillKeyBuffer(cacheSet(w, h, img), b, img, t),
      [t EXCEPT !.pc = "btn", !.i = @ + 1, !.eff = NoButton]>>

\* getKeyBuffer for effective config eff with hash h, up to its first real await.
cachedOrRender(w, b, t, eff, h) ==
    IF h \in DOMAIN w.cache
    THEN <<fillKeyBuffer(w, b, w.cache[h], t), [t EXCEPT !.pc = "btn", !.i = @ + 1]>>
    ELSE IF ~NeedsIO(eff)
    THEN storeAndFill(w, b, t, h, renderButtonToBuffer(eff, TRUE))
    ELSE <<w, [t EXCEPT !.pc = "raster", !.eff = eff]>>

\* PageRenderer.getKeyBuffer up to its first real await, for button b in task
\* t: a cache hit or a plain background is written at once, anything else
\* leaves the task waiting for the rasterization.  Returns <<world, task>>.
getKeyBufferSync(w, b, t, states) ==
    cachedOrRender(w, b, t, getEffectiveConfig(b, states),
                   getButtonHash(getEffectiveConfig(b, states)))

\* PageRenderer.getKeyBuffer after the await: the buffer is stored under the
\* hash computed before the await and pushed to the key.
getKeyBufferDone(w, t, fetched) ==
    storeAndFill(w, t.btns[t.i], t, getButtonHash(t.eff), renderButtonToBuffer(t.eff, fetched))

\* PageRenderer.renderPage(page) up to its first await: clearKey(0) is called.
renderPageStart(w, page, cont, cfg, overlapped) ==
    LET t == [Task("page", page, "clear", 0, cont, cfg) EXCEPT !.overlapped = overlapped]
    IN  <<clearKey(w, 0, t), AfterClear(t, 0)>>

\* The 'clear' command of the 'down' handler up to its first await.
clearAllStart(w) ==
    LET t == Task("clear", << >>, "clear", 0, "none", NoDoc)
    IN  <<clearKey(w, 0, t), AfterClear(t, 0)>>

PageRenders(ts) == {n \in 1 .. Len(ts) : ts[n].kind = "page"}
MarkStale(ts) == [n \in 1 .. Len(ts) |-> IF ts[n].kind = "page" THEN [ts[n] EXCEPT !.stale = TRUE]
                                         ELSE ts[n]]

\* ------------------------------------------------------ navigation manager
\* navigateTo without the lookup of the page name.
navigateToUnchecked(w, cfg, p, cont, ack, ts) ==
    LET r == renderPageStart(w, PageOf(cfg, p), cont, ack, PageRenders(ts) # {})
    IN  [found |-> TRUE, world |-> r[1], task |-> r[2]]

\* NavigationManager.navigateTo(p) up to the first await of renderPage:
\* [found, world, task]; ts are the handlers in flight.
navigateTo(w, cfg, p, cont, ack, ts) ==
    IF p \in PagesOf(cfg)
    THEN LET r == renderPageStart(w, cfg.pages[p], cont, ack, PageRenders(ts) # {})
         IN  [found |-> TRUE, world |-> r[1], task |-> r[2]]
    ELSE [found |-> FALSE, world |-> w, task |-> NoTask]

\* The handlers in flight after a navigation: the renders begun earlier are
\* superseded (history only), the new one is added.
WithRender(ts, nav) == IF nav.found THEN Live(Append(MarkStale(ts), nav.task)) ELSE ts

\* A lookup that reads the default page whatever page is displayed.
PressedButtonOnDefault(cfg, p, k) ==
    LET page == PageOf(cfg, "default")
    IN  IF k + 1 \in 1 .. Len(page) THEN page[k + 1] ELSE NoButton

\* NavigationManager.handleButtonPress: the button it acts on, page[keyIndex].
PressedButton(cfg, p, k) ==
    LET page == PageOf(cfg, p)
    IN  IF k + 1 \in 1 .. Len(page) THEN page[k + 1] ELSE NoButton

\* The button of page p whose key index is k, if any.
ButtonAtKey(cfg, p, k) ==
    IF \E b \in ButtonsOf(cfg, p) : b.key = k
    THEN CHOOSE b \in ButtonsOf(cfg, p) : b.key = k
    ELSE NoButton

\* ------------------------------------------------------------ state tracker
\* A tracked set built from the actions alone, with no look at stateEntity.
updateTrackedEntitiesByAction(cfg) ==
    {Entity(b.action.domain, b.action.name) :
        b \in {x \in UNION {ButtonsOf(cfg, p) : p \in PagesOf(cfg)} :
                 x.useEntityState /\ x.action.type = "ha"}}

\* StateManager.updateTrackedEntities: the new subscribedEntities.
updateTrackedEntities(cfg) ==
    {TrackedEntityOf(b) : b \in {x \in UNION {ButtonsOf(cfg, p) : p \in PagesOf(cfg)} :
                                   x.useEntityState /\ TrackedEntityOf(x) # NoEntity}}

\* handleMessage that emits the event without storing the state.
handleStateChangedUnstored(states, subs, e, st) == states

\* StateManager.handleMessage, case 'event': the latest-value map after a
\* state_changed event for entity e.
handleStateChanged(states, subs, e, st) ==
    IF e \in subs THEN [x \in DOMAIN states \cup {e} |-> IF x = e THEN st ELSE states[x]]
    ELSE states

\* The buttons of the displayed page that track entity e, in page order.
TrackingButtons(cfg, p, e) ==
    SelectSeq(PageOf(cfg, p), LAMBDA b : b.useEntityState /\ TrackedEntityOf(b) = e)

\* The handlers in flight once the handler of r = <<world, task>> has reached
\* its first await.
Spawned(ts, r) == <<r[1], Live(Append(ts, r[2]))>>

\* PageRenderer.renderKey(b.key, b) up to its first real await: <<world, tasks>>.
renderKey(w, ts, b, states) ==
    Spawned(ts, getKeyBufferSync(w, b, Task("key", <<b>>, "btn", 1, "none", NoDoc), states))

\* The stateChanged listener: every tracking button of the displayed page is
\* re-rendered with renderKey.
RECURSIVE renderKeys(_, _, _, _)
renderRest(r, bs, states) == renderKeys(r[1], r[2], bs, states)
renderKeys(w, ts, bs, states) ==
    IF bs = << >> THEN <<w, ts>>
    ELSE renderRest(renderKey(w, ts, Head(bs), states), Tail(bs), states)

\* ------------------------------------------------------------- config/status
\* publishConfigStatus(status, config, error): the hash stands for the config
\* hashed; an absent or empty error is published as null, here "".
Ack(status, doc, error) == [status |-> status, configHash |-> doc, error |-> error]

\* The messages of the two failures a config can meet.
MissingPages == "Invalid config format: missing pages"
BrightnessRejected == "Invalid brightness"

\* ------------------------------------------------------------- the connection
\* setTimeout(..., 5000) of scheduleReconnect
Backoff == 5000

\* A WebSocket made by connect(): st is "connecting" until auth_ok, then
\* "authed"; "erroring" while its 'error' event is due and "closing" while
\* its 'close' event is due; waiter is the caller awaiting connect()'s
\* promise ("main", "timer") or "none" once it is settled; current marks
\* the socket this.ws refers to; pending counts its get_states requests the
\* server has not answered yet.
Socket(waiter) == [st |-> "connecting", waiter |-> waiter, current |-> TRUE, pending |-> 0]

\* StateManager after construction. timer is the delay of the pending
\* reconnect timer, 0 when reconnectTimer is null, and armed the number of
\* timeouts that were set and have neither fired nor been cleared; held
\* tells whether the last handler called scheduleReconnect and found a
\* timer pending; started, shut, faults
\* and ev record what has happened: connect() called, disconnect() called,
\* the failures met so far, and the event handled last. token tells
\* whether HOMEASSISTANT_TOKEN is set; out holds the messages the last
\* handler sent over the socket, requests the HTTP requests it made, and
\* updates, calls and pushes count the config changes, service calls and
\* state_changed events so far; got holds the states the last message
\* carried, by entity.
NoConnection == [ws |-> FALSE, isConnected |-> FALSE, timer |-> 0, armed |-> 0, held |-> FALSE,
                 socks |-> << >>,
                 started |-> FALSE, shut |-> FALSE, faults |-> 0, ev |-> "init",
                 token |-> TRUE, out |-> << >>, requests |-> 0, updates |-> 0, calls |-> 0,
                 pushes |-> 0, got |-> << >>]

\* A scheduleReconnect that arms nothing.
scheduleNothing(c) == c

\* A scheduleReconnect that sets a timeout whether or not one is pending.
scheduleReconnectAgain(c) == [c EXCEPT !.timer = Backoff, !.armed = @ + 1]

\* StateManager.scheduleReconnect: a timer is armed unless one is pending.
scheduleReconnect(c) ==
    IF c.timer # 0 THEN c ELSE [c EXCEPT !.timer = Backoff, !.armed = @ + 1]

\* StateManager.connect(): nothing when connected or without a token, else a
\* new WebSocket, which this.ws refers to from now on.
connect(c, waiter) ==
    IF c.ws /\ c.isConnected THEN c
    ELSE IF ~c.token THEN c
    ELSE [c EXCEPT !.ws = TRUE,
                   !.socks = Append([n \in 1 .. Len(@) |-> [@[n] EXCEPT !.current = FALSE]],
                                    Socket(waiter))]

\* this.ws is socket n and its readyState is OPEN.
IsOpen(c, n) == c.ws /\ c.socks[n].current /\ c.socks[n].st = "authed"

\* StateManager.send(message): the message goes out over this.ws when that
\* socket is open, and is dropped otherwise.
send(c, type) ==
    IF \E n \in 1 .. Len(c.socks) : IsOpen(c, n)
    THEN [c EXCEPT !.out = Append(@, type),
                   !.socks = [n \in 1 .. Len(@) |->
                                IF IsOpen(c, n) /\ type = "get_states"
                                THEN [@[n] EXCEPT !.pending = @ + 1] ELSE @[n]]]
    ELSE c

\* A subscription that sends nothing.
subscribeNothing(c) == c

\* StateManager.subscribeToStateChanges: when connected, a subscribe_events
\* request and a get_states request are sent.
subscribeToStateChanges(c) ==
    IF ~c.isConnected THEN c ELSE send(send(c, "subscribe_events"), "get_states")

\* The get_states request sent whenever the tracked set changes.
resubscribeAlways(c, had, tracked) == IF c.isConnected THEN subscribeToStateChanges(c) ELSE c

\* The end of StateManager.updateTrackedEntities: the subscription is made
\* when the tracked set was empty, is not any more, and the tracker is connected.
resubscribe(c, had, tracked) ==
    IF ~had /\ tracked # {} /\ c.isConnected THEN subscribeToStateChanges(c) ELSE c

\* StateManager.handleMessage, case 'result': the latest-value map after the
\* answer to get_states, which lists every entity of the server.
RECURSIVE handleResult(_, _, _, _)
handleResult(states, subs, listed, snapshot) ==
    IF listed = {} THEN states
    ELSE LET e == CHOOSE x \in listed : TRUE
         IN  handleResult(handleStateChanged(states, subs, e, snapshot[e]), subs,
                          listed \ {e}, snapshot)

\* A client that sends the request whether or not it holds a token.
callServiceAnyway(c) == [c EXCEPT !.requests = @ + 1]

\* HomeAssistantClient.callService for a service "domain.service": without
\* a token nothing is sent, else one POST request; a failed request is logged.
callService(c) == IF ~c.token THEN c ELSE [c EXCEPT !.requests = @ + 1]

\* ------------------------------------------------------------------ events
\* What an event keeps of the key press just before it: the action pressed
\* and the brightness it was pressed at.
NoPress == [action |-> NoAction, level |-> -1]
Event(ev) == [ev |-> ev, key |-> -1, page |-> currentPage, btn |-> NoButton,
              keyed |-> NoButton, ret |-> NoAction, payload |-> Payload(FALSE, FALSE, NoDoc),
              entity |-> NoEntity, st |-> StOff, spawned |-> 0, acked |-> FALSE,
              overlapped |-> FALSE, written |-> FALSE, thrown |-> FALSE,
              level |-> -1, was |-> NoPress, failed |-> {}, fetched |-> TRUE,
              pubs |-> << >>,
              ready |-> deviceReady /\ navReady]

WaitingImage == [Solid(DefaultBg) EXCEPT !.text = "Waiting", !.textRgb = <<255, 255, 255>>,
                                         !.y = "top"]
MainTask == Task("main", << >>, "", 0, "none", NoDoc)

\* The process at its start, before main() has run.
Fresh ==
    /\ deviceReady = FALSE
    /\ navReady = FALSE
    /\ listening = FALSE
    /\ config = emptyConfig
    /\ currentPage = "default"
    /\ subscribed = {}
    /\ entityStates = << >>
    /\ cache = << >>
    /\ device = [k \in Keys |-> Blank]
    /\ brightness = -1
    /\ previousBrightness = -1
    /\ tasks = << >>
    /\ acks = << >>
    /\ received = 0
    /\ events = 0
    /\ last = Event("init")
    /\ io = << >>

Init ==
    /\ persisted \in {[exists |-> FALSE, doc |-> NoDoc], [exists |-> TRUE, doc |-> CfgA]}
    /\ conn = NoConnection
    /\ Fresh

\* main(): the device is opened and cleared, and its brightness set from the
\* cached config or to the default.
Open ==
    /\ ~deviceReady
    /\ deviceReady' = TRUE
    /\ device' = [k \in Keys |-> Blank]
    /\ brightness' = IF ~persisted.exists THEN DefaultBrightness
                     ELSE IF persisted.doc.brightness > 0 THEN persisted.doc.brightness
                     ELSE brightness
    /\ io' = [k \in 1 .. NumKeys |-> IoEntry("clear", k - 1, Blank, NoButton, MainTask)]
             \o (IF brightness' # brightness
                 THEN <<IoEntry("brightness", brightness', Blank, NoButton, MainTask)>>
                 ELSE << >>)
    /\ last' = Event("open")
    /\ UNCHANGED <<navReady, listening, persisted, config, currentPage, subscribed,
                   entityStates, cache, tasks, acks, received, events, previousBrightness,
                   conn>>

\* main(), continued: the navigation manager is created with the cached
\* config and started, or with the empty config behind the waiting indicator.
Start ==
    /\ deviceReady /\ ~navReady
    /\ navReady' = TRUE
    /\ IF persisted.exists
       THEN LET nav == navigateTo(World, persisted.doc, "default", "listen", NoDoc, tasks)
            IN  /\ config' = persisted.doc
                /\ subscribed' = updateTrackedEntities(persisted.doc)
                /\ currentPage' = IF nav.found THEN "default" ELSE currentPage
                /\ tasks' = WithRender(tasks, nav)
                /\ device' = nav.world.device
                /\ io' = nav.world.io
                /\ listening' = listening
       ELSE LET w == fillKeyBuffer(World, [NoButton EXCEPT !.key = 0], WaitingImage, MainTask)
            IN  /\ config' = emptyConfig
                /\ subscribed' = {}
                /\ currentPage' = currentPage
                /\ tasks' = tasks
                /\ device' = w.device
                /\ io' = w.io
                /\ listening' = TRUE
    /\ last' = Event("start")
    /\ UNCHANGED <<deviceReady, persisted, entityStates, cache, brightness, acks, received,
                   events, previousBrightness,
                   conn>>

\* A test that takes every command for 'clear'.
IsAnyCommand(act) == act.type = "command"

\* action.type === 'command' && action.command === 'clear'
IsClear(act) == act.type = "command" /\ act.command = "clear"

\* The step of brightness_up and brightness_down without a value, and the
\* brightness lcd_on sets with nothing remembered.
DefaultStep == 10
FullBrightness == 100

\* A brightness kept as it comes out of the arithmetic.
unclamped(v) == v

\* Every mutation of the brightness is clamped to [0,100].
clampBrightness(v) == Max(0, Min(FullBrightness, v))

\* A step read from the action's value whether or not it is given.
stepOfValue(value) == value

\* The step of brightness_up and brightness_down: the action's value, else 10.
stepOf(value) == IF value = NoValue THEN DefaultStep ELSE value

\* lcd_on with whatever was remembered taken as a brightness.
lcdOnAlways(remembered) == remembered

\* lcd_on: the remembered brightness when there is one above 0, else 100.
lcdOn(remembered) == IF remembered > 0 THEN remembered ELSE FullBrightness

\* The command engine: the brightness and the remembered brightness after
\* the command, and whether the device's brightness is set.
handleCommand(level, remembered, name, value) ==
    IF name = "brightness_up"
    THEN [brightness |-> clampBrightness(level + stepOf(value)), previous |-> remembered,
          known |-> TRUE]
    ELSE IF name = "brightness_down"
    THEN [brightness |-> clampBrightness(level - stepOf(value)), previous |-> remembered,
          known |-> TRUE]
    ELSE IF name = "set_brightness" /\ value # NoValue
    THEN [brightness |-> clampBrightness(value), previous |-> remembered, known |-> TRUE]
    ELSE IF name = "lcd_off"
    THEN [brightness |-> 0, previous |-> level, known |-> TRUE]
    ELSE IF name = "lcd_on"
    THEN [brightness |-> lcdOn(remembered), previous |-> remembered, known |-> TRUE]
    ELSE [brightness |-> level, previous |-> remembered, known |-> FALSE]

CommandTask == Task("command", << >>, "", 0, "none", NoDoc)

\* A press handler that hands every action back to no one.
handleButtonPressConsumed(act) == NoAction

\* What NavigationManager.handleButtonPress returns for the action of the
\* pressed button: nothing for a navigate action, which it has carried out,
\* and the action itself otherwise.
handleButtonPress(act) == IF act.type = "navigate" THEN NoAction ELSE act

\* A handler that publishes no key state.
keyStateSilent(k, payload) == << >>

\* client.publish(`${BASE_TOPIC}/key/${k}/state`, payload)
keyState(k, payload) == <<[key |-> k, topic |-> "key/state", payload |-> payload]>>

\* client.publish(action.topic, action.payload, ...) of the 'down' handler
publishAction(act) ==
    IF act.type = "mqtt" THEN <<[key |-> NoValue, topic |-> act.name, payload |-> "action"]>>
    ELSE << >>

\* myStreamDeck.on('down'): the press is handed to handleButtonPress; a
\* navigate action is consumed there, a brightness command goes to the
\* command engine, a 'clear' command clears every key.
KeyDown(k) ==
    /\ listening
    /\ events < MaxEvents
    /\ LET b == PressedButton(config, currentPage, k)
           act == b.action
           nav == navigateTo(World, config, act.page, "none", NoDoc, tasks)
           clr == clearAllStart(World)
           isNav == act.type = "navigate"
           isClear == IsClear(act)
           cmd == IF act.type = "command"
                  THEN handleCommand(brightness, previousBrightness, act.command, act.value)
                  ELSE handleCommand(brightness, previousBrightness, "", NoValue)
       IN  /\ (isClear \/ (isNav /\ nav.found)) => Len(tasks) < MaxTasks
           /\ brightness' = cmd.brightness
           /\ previousBrightness' = cmd.previous
           /\ currentPage' = IF isNav /\ nav.found THEN act.page ELSE currentPage
           /\ tasks' = IF isNav THEN WithRender(tasks, nav)
                       ELSE IF isClear
                       THEN Live(Append(tasks, clr[2]))
                       ELSE tasks
           /\ device' = IF isNav THEN nav.world.device
                        ELSE IF isClear THEN clr[1].device ELSE device
           /\ io' = IF isNav THEN nav.world.io
                    ELSE IF isClear THEN clr[1].io
                    ELSE IF cmd.known THEN setBrightness(World, cmd.brightness, CommandTask).io
                    ELSE << >>
           /\ last' = [Event("press") EXCEPT
                          !.key = k, !.btn = b,
                          !.level = brightness,
                          !.was = IF last.ev = "press"
                                  THEN [action |-> last.btn.action, level |-> last.level]
                                  ELSE NoPress,
                          !.keyed = ButtonAtKey(config, currentPage, k),
                          !.ret = handleButtonPress(act),
                          !.pubs = keyState(k, "pressed")
                                       \o publishAction(handleButtonPress(act)),
                          !.spawned = Len(tasks') - Len(tasks)]
    /\ events' = events + 1
    /\ UNCHANGED <<deviceReady, navReady, listening, persisted, config, subscribed,
                   entityStates, cache, acks, received,
                   conn>>

\* myStreamDeck.on('up'): the release is published and nothing else happens.
KeyUp(k) ==
    /\ listening
    /\ events < MaxEvents
    /\ events' = events + 1
    /\ io' = << >>
    /\ last' = [Event("release") EXCEPT !.key = k, !.pubs = keyState(k, "released")]
    /\ UNCHANGED <<deviceReady, navReady, listening, persisted, config, currentPage, subscribed,
                   entityStates, cache, device, brightness, previousBrightness, tasks, acks,
                   received, conn>>

\* A save whose file is put back as it was.
saveConfigUndone(file, doc, written) == file

\* ConfigManager.saveConfig: the cache file after the write; a failed write
\* is logged and leaves the file as it was.
saveConfig(file, doc, written) == IF written THEN [exists |-> TRUE, doc |-> doc] ELSE file

\* A check that takes any JSON value for a config.
ValidatesAnyJson(pl) == pl.parses

\* JSON.parse succeeded and (config && config.pages)
Validates(pl) == pl.parses /\ pl.hasPages

\* The device takes a brightness of 0 to 100 and rejects any other.
BrightnessAccepted(percent) == percent \in 0 .. 100

\* NavigationManager.updateConfig(doc) up to its first await: the config is
\* replaced and the tracked entities recomputed (by the caller's primes); a
\* brightness, when given, is handed to the device, which may reject it;
\* without one the default page is navigated to at once.
updateConfig(w, doc, ts) ==
    LET dimmed == doc.brightness # -1
        t == Task("apply", << >>, "bright", 0, "ack", doc)
    IN  IF dimmed /\ ~BrightnessAccepted(doc.brightness)
        THEN [thrown |-> TRUE, message |-> BrightnessRejected, dimmed |-> TRUE,
              found |-> FALSE, world |-> w, tasks |-> ts]
        ELSE IF dimmed
        THEN [thrown |-> FALSE, message |-> "", dimmed |-> TRUE, found |-> FALSE,
              world |-> setBrightness(w, doc.brightness, t), tasks |-> Append(ts, t)]
        ELSE [thrown |-> FALSE, message |-> "", dimmed |-> FALSE,
              found |-> navigateTo(w, doc, "default", "ack", doc, ts).found,
              world |-> navigateTo(w, doc, "default", "ack", doc, ts).world,
              tasks |-> WithRender(ts, navigateTo(w, doc, "default", "ack", doc, ts))]

\* NavigationManager.updateConfig after setBrightness has returned: the
\* default page of the config then in force is navigated to.
updateConfigResume(w, cfg, t, ts) == navigateTo(w, cfg, "default", "ack", t.cfg, ts)

\* client.on('message') for config/set: the payload is parsed and checked;
\* applyConfig saves the config, hands it to the navigation manager and
\* publishes the outcome once updateConfig has returned or thrown.
ConfigSet(pl, written) ==
    /\ events < MaxEvents
    /\ LET doc == pl.doc
           accepted == Validates(pl) /\ deviceReady /\ navReady
           up == updateConfig(World, doc, tasks)
           returned == accepted /\ ~up.thrown /\ ~up.dimmed /\ ~up.found
       IN  /\ (accepted /\ ~up.thrown /\ ~returned) => Len(tasks) < MaxTasks
           /\ ~accepted => written
           /\ persisted' = IF accepted THEN saveConfig(persisted, doc, written) ELSE persisted
           /\ config' = IF accepted THEN doc ELSE config
           /\ subscribed' = IF accepted THEN updateTrackedEntities(doc) ELSE subscribed
           /\ brightness' = IF accepted /\ up.dimmed /\ ~up.thrown THEN doc.brightness
                            ELSE brightness
           /\ currentPage' = IF accepted /\ up.found THEN "default" ELSE currentPage
           /\ tasks' = IF accepted THEN up.tasks ELSE tasks
           /\ device' = IF accepted THEN up.world.device ELSE device
           /\ io' = IF accepted THEN up.world.io ELSE << >>
           /\ acks' = IF pl.parses /\ ~pl.hasPages /\ deviceReady
                      THEN Append(acks, Ack("error", doc, MissingPages))
                      ELSE IF accepted /\ up.thrown
                      THEN Append(acks, Ack("error", doc, up.message))
                      ELSE IF returned THEN Append(acks, Ack("applied", doc, ""))
                      ELSE acks
           /\ last' = [Event("config") EXCEPT !.payload = pl,
                                              !.written = accepted /\ written,
                                              !.thrown = accepted /\ up.thrown,
                                              !.spawned = Len(tasks') - Len(tasks),
                                              !.acked = Len(acks') > Len(acks)]
    /\ received' = received + 1
    /\ events' = events + 1
    /\ UNCHANGED <<deviceReady, navReady, listening, entityStates, cache, previousBrightness,
                   conn>>

\* The tracker's WebSocket delivers a state_changed event for entity e: the
\* latest value is stored and the stateChanged listener re-renders the
\* buttons of the displayed page that track e.
StateChanged(e, st) ==
    /\ navReady
    /\ events < MaxEvents
    /\ LET bs == IF e \in subscribed THEN TrackingButtons(config, currentPage, e) ELSE << >>
           states == handleStateChanged(entityStates, subscribed, e, st)
       IN  \E r \in {renderKeys(World, tasks, bs, states)} :
           /\ Len(tasks) + Len(bs) <= MaxTasks
           /\ entityStates' = states
           /\ cache' = r[1].cache
           /\ device' = r[1].device
           /\ io' = r[1].io
           /\ tasks' = r[2]
           /\ last' = [Event("state") EXCEPT !.entity = e, !.st = st,
                                             !.spawned = Len(r[2]) - Len(tasks)]
    /\ events' = events + 1
    /\ UNCHANGED <<deviceReady, navReady, listening, persisted, config, currentPage,
                   subscribed, brightness, acks, received, previousBrightness,
                   conn>>

\* Handler n resumes after its await and runs to its next one.
Replace(ts, n, t) == Live([ts EXCEPT ![n] = t])
Remove(ts, n) == [m \in 1 .. (Len(ts) - 1) |-> IF m < n THEN ts[m] ELSE ts[m + 1]]

TaskStep(n, fetched) ==
    /\ n \in 1 .. Len(tasks)
    /\ LET t == tasks[n]
           clearing == t.pc = "clear"
           drawing == t.pc = "btn" /\ t.i <= Len(t.btns)
           raster == t.pc = "raster"
           ending == t.pc = "btn" /\ t.i > Len(t.btns)
           dimmed == t.pc = "bright"
           nav == updateConfigResume(World, config, t, Remove(tasks, n))
       IN  \E r \in {IF clearing THEN <<clearKey(World, t.i, t), AfterClear(t, t.i)>>
                     ELSE IF drawing
                     THEN getKeyBufferSync(World, t.btns[t.i], t, entityStates)
                     ELSE IF raster THEN getKeyBufferDone(World, t, fetched)
                     ELSE IF dimmed /\ nav.found THEN <<nav.world, nav.task>>
                     ELSE <<World, t>>} :
           /\ ~(raster /\ Fetches(t.eff)) => fetched
           /\ cache' = r[1].cache
           /\ device' = r[1].device
           /\ io' = r[1].io
           /\ tasks' = IF ending \/ (dimmed /\ ~nav.found) THEN Remove(tasks, n)
                       ELSE IF dimmed THEN WithRender(Remove(tasks, n), nav)
                       ELSE Replace(tasks, n, r[2])
           /\ currentPage' = IF dimmed /\ nav.found THEN "default" ELSE currentPage
           /\ acks' = IF (ending \/ (dimmed /\ ~nav.found)) /\ t.cont = "ack"
                      THEN Append(acks, Ack("applied", t.cfg, "")) ELSE acks
           /\ listening' = IF ending /\ t.cont = "listen" THEN TRUE ELSE listening
           /\ last' = [Event("step") EXCEPT !.btn = IF raster \/ drawing THEN t.btns[t.i]
                                                    ELSE NoButton,
                                            !.ret = [NoAction EXCEPT !.type = t.kind,
                                                                     !.command = t.pc],
                                            !.acked = Len(acks') > Len(acks),
                                            !.overlapped = t.overlapped \/ t.stale,
                                            !.failed = t.failed,
                                            !.fetched = fetched]
    /\ UNCHANGED <<deviceReady, navReady, persisted, config, subscribed, entityStates,
                   brightness, received, events, previousBrightness,
                   conn>>

\* A render that stops at the first button that fails.
abortRender(w, b, t) ==
    <<[w EXCEPT !.io = Append(@, IoEntry("failed", b.key, Blank, b, t))],
      [t EXCEPT !.pc = "btn", !.i = Len(t.btns) + 1, !.eff = NoButton,
                !.failed = @ \cup {b.key}]>>

\* The catch blocks of renderPage and renderKey: the button did not make it
\* to its key, which is logged, and the render goes on with the next button.
skipButton(w, b, t) ==
    <<[w EXCEPT !.io = Append(@, IoEntry("failed", b.key, Blank, b, t))],
      [t EXCEPT !.pc = "btn", !.i = @ + 1, !.eff = NoButton, !.failed = @ \cup {b.key}]>>

\* Handler n is a page or key render whose current button fails: how is
\* "render" when renderButtonToBuffer throws after its await (font, decode)
\* and "write" when fillKeyBuffer rejects, the buffer being cached by then.
TaskFault(n, how, fetched) ==
    /\ n \in 1 .. Len(tasks)
    /\ LET t == tasks[n]
           b == t.btns[t.i]
           eff == getEffectiveConfig(b, entityStates)
           h == getButtonHash(eff)
           drawing == t.pc = "btn" /\ t.i <= Len(t.btns)
           raster == t.pc = "raster"
       IN  /\ t.kind \in {"page", "key"}
           /\ drawing \/ raster
           /\ drawing => how = "write" /\ fetched /\ (h \in DOMAIN cache \/ ~NeedsIO(eff))
           /\ ~(raster /\ Fetches(t.eff) /\ how = "write") => fetched
           /\ \E r \in {skipButton(
                            IF how = "render" \/ (drawing /\ h \in DOMAIN cache) THEN World
                            ELSE IF drawing
                            THEN cacheSet(World, h, renderButtonToBuffer(eff, TRUE))
                            ELSE cacheSet(World, getButtonHash(t.eff),
                                          renderButtonToBuffer(t.eff, fetched)),
                            b, t)} :
                /\ cache' = r[1].cache
                /\ io' = r[1].io
                /\ tasks' = Replace(tasks, n, r[2])
                /\ last' = [Event("fault") EXCEPT !.btn = b,
                                                   !.ret = [NoAction EXCEPT !.type = t.kind,
                                                                            !.command = how],
                                                   !.overlapped = t.overlapped \/ t.stale,
                                                   !.failed = r[2].failed]
    /\ UNCHANGED <<deviceReady, navReady, listening, persisted, config, currentPage, subscribed,
                   entityStates, device, brightness, previousBrightness, conn, acks, received,
                   events>>

Next ==
    \/ Open
    \/ Start
    \/ \E k \in Keys : KeyDown(k)
    \/ \E pl \in Payloads, written \in BOOLEAN : ConfigSet(pl, written)
    \/ \E e \in Entities, st \in PushedStates : StateChanged(e, st)
    \/ \E n \in 1 .. MaxTasks, fetched \in BOOLEAN : TaskStep(n, fetched)

Spec == Init /\ [][Next]_vars

\* The process started on a cached configuration of navigation or command
\* keys, and driven by key presses alone.
InitKeys ==
    /\ persisted \in {[exists |-> TRUE, doc |-> c] : c \in KeyConfigs}
    /\ conn = NoConnection
    /\ Fresh

NextKeys ==
    \/ Open
    \/ Start
    \/ \E k \in Keys : KeyDown(k)
    \/ \E k \in Keys : KeyUp(k)
    \/ \E n \in 1 .. MaxTasks, fetched \in BOOLEAN : TaskStep(n, fetched)

SpecKeys == InitKeys /\ [][NextKeys]_vars

\* The process started on a cached configuration, with entity states pushed
\* and with buttons that fail to render or to reach the device.
InitRender ==
    /\ persisted \in {[exists |-> TRUE, doc |-> c] : c \in {CfgA, CfgB, CfgD}}
    /\ conn = NoConnection
    /\ Fresh

NextRender ==
    \/ Open
    \/ Start
    \/ \E e \in Entities, st \in PushedStates : StateChanged(e, st)
    \/ \E n \in 1 .. MaxTasks, fetched \in BOOLEAN : TaskStep(n, fetched)
    \/ \E n \in 1 .. MaxTasks, how \in {"render", "write"}, fetched \in BOOLEAN :
          TaskFault(n, how, fetched)

SpecRender == InitRender /\ [][NextRender]_vars

\* The process started on a configuration whose buttons track a light and a
\* switch, the entities reporting states of every kind.
InitDim ==
    /\ persisted \in {[exists |-> TRUE, doc |-> c] : c \in {CfgB, CfgTinted}}
    /\ conn = NoConnection
    /\ Fresh

NextDim ==
    \/ Open
    \/ Start
    \/ \E e \in Entities, st \in RenderStates : StateChanged(e, st)
    \/ \E n \in 1 .. MaxTasks, fetched \in BOOLEAN : TaskStep(n, fetched)

SpecDim == InitDim /\ [][NextDim]_vars

\* The process started on a configuration with a light button, the light
\* reporting its states.
InitLight ==
    /\ persisted = [exists |-> TRUE, doc |-> CfgA]
    /\ conn = NoConnection
    /\ Fresh

NextLight ==
    \/ Open
    \/ Start
    \/ \E st \in LightStates : StateChanged(LightA, st)
    \/ \E n \in 1 .. MaxTasks, fetched \in BOOLEAN : TaskStep(n, fetched)

SpecLight == InitLight /\ [][NextLight]_vars

\* ------------------------------------------------- the connection's events
appVars == <<deviceReady, navReady, listening, persisted, config, currentPage, cache, device,
             brightness, previousBrightness, tasks, acks, received, events, last, io>>

\* The connection as a handler finds it: nothing sent yet.
Now == [conn EXCEPT !.out = << >>, !.held = FALSE, !.got = << >>]

\* The tracker is started: connect() is called and awaited by the caller.
Connect ==
    /\ ~conn.started /\ ~conn.shut
    /\ conn' = [connect(Now, "main") EXCEPT !.started = TRUE, !.ev = "connect"]
    /\ UNCHANGED <<appVars, subscribed, entityStates>>

\* The reconnect timer fires: reconnectTimer = null, then connect() is awaited.
TimerFires ==
    /\ conn.armed > 0
    /\ ~(conn.ws /\ conn.isConnected) => Len(conn.socks) < MaxSockets
    /\ conn' = [connect([Now EXCEPT !.timer = 0, !.armed = @ - 1], "timer")
                   EXCEPT !.ev = "attempt"]
    /\ UNCHANGED <<appVars, subscribed, entityStates>>

\* Socket n receives auth_ok: isConnected = true, the promise is resolved
\* and, with entities to track, the subscription is made. Its auth message
\* went out through this.ws, so only the socket this.ws refers to gets that far.
AuthOk(n) ==
    /\ n \in 1 .. Len(conn.socks)
    /\ conn.socks[n].st = "connecting" /\ conn.socks[n].current /\ conn.ws
    /\ LET c == [Now EXCEPT !.isConnected = TRUE,
                            !.socks[n].st = "authed", !.socks[n].waiter = "none",
                            !.ev = "authok"]
       IN  conn' = IF subscribed # {} THEN subscribeToStateChanges(c) ELSE c
    /\ UNCHANGED <<appVars, subscribed, entityStates>>

\* The network or the server fails socket n: the connection breaks with an
\* error, or the server closes it, as it does after auth_invalid, which
\* leaves connect()'s promise unsettled.
Break(n, how) ==
    /\ n \in 1 .. Len(conn.socks)
    /\ conn.socks[n].st \in {"connecting", "authed"}
    /\ conn.faults < MaxFaults
    /\ conn' = [Now EXCEPT !.socks[n].st = IF how = "error" THEN "erroring" ELSE "closing",
                            !.faults = @ + 1, !.ev = "break"]
    /\ UNCHANGED <<appVars, subscribed, entityStates>>

\* ws.on('error'): the promise of connect() is rejected; when the caller is
\* the timer's callback its catch block schedules the next attempt. The
\* socket's 'close' event follows.
ErrorEvent(n) ==
    /\ n \in 1 .. Len(conn.socks)
    /\ conn.socks[n].st = "erroring"
    /\ LET c == IF conn.socks[n].waiter = "timer" THEN scheduleReconnect(Now) ELSE Now
       IN  conn' = [c EXCEPT !.socks[n].st = "closing", !.socks[n].waiter = "none",
                             !.held = conn.socks[n].waiter = "timer" /\ conn.timer # 0,
                             !.ev = "error"]
    /\ UNCHANGED <<appVars, subscribed, entityStates>>

\* ws.on('close'): isConnected = false and scheduleReconnect(). The event is
\* due for a socket that broke or was closed, and for one that this.ws no
\* longer refers to before it authenticated, which the server drops.
CloseEvent(n) ==
    /\ n \in 1 .. Len(conn.socks)
    /\ \/ conn.socks[n].st = "closing"
       \/ conn.socks[n].st = "connecting" /\ ~conn.socks[n].current
    /\ conn' = [scheduleReconnect([Now EXCEPT !.isConnected = FALSE])
                   EXCEPT !.socks = Remove(conn.socks, n), !.held = conn.timer # 0,
                          !.ev = "close"]
    /\ UNCHANGED <<appVars, subscribed, entityStates>>

\* StateManager.disconnect(): the timer is cleared, this.ws is closed and
\* forgotten. Closing a socket that is still connecting fails it with an
\* error before its 'close' event.
Disconnect ==
    /\ conn.started /\ ~conn.shut
    /\ conn' = [Now EXCEPT
                   !.timer = 0,
                   !.armed = IF conn.timer # 0 THEN @ - 1 ELSE @,
                   !.socks = [n \in 1 .. Len(@) |->
                                IF conn.ws /\ @[n].current
                                THEN [@[n] EXCEPT
                                        !.st = IF @ = "connecting" THEN "erroring"
                                               ELSE IF @ = "authed" THEN "closing" ELSE @,
                                        !.current = FALSE]
                                ELSE @[n]],
                   !.ws = FALSE,
                   !.isConnected = FALSE,
                   !.shut = TRUE,
                   !.ev = "disconnect"]
    /\ UNCHANGED <<appVars, subscribed, entityStates>>

\* A config change reaches the tracker: updateTrackedEntities(cfg).
UpdateTracked(cfg) ==
    /\ conn.updates < MaxUpdates
    /\ subscribed' = updateTrackedEntities(cfg)
    /\ conn' = [resubscribe(Now, subscribed # {}, subscribed')
                   EXCEPT !.updates = @ + 1, !.ev = "update"]
    /\ UNCHANGED <<appVars, entityStates>>

\* The server answers a get_states request of socket n with the states of
\* all its entities: those of tracked entities are stored. No stateChanged
\* listener is registered before the navigation manager exists.
Result(n, snapshot) ==
    /\ n \in 1 .. Len(conn.socks)
    /\ conn.socks[n].st = "authed" /\ conn.socks[n].pending > 0
    /\ ~navReady
    /\ entityStates' = handleResult(entityStates, subscribed, Entities, snapshot)
    /\ conn' = [Now EXCEPT !.socks[n].pending = @ - 1, !.got = snapshot, !.ev = "result"]
    /\ UNCHANGED <<appVars, subscribed>>

\* Socket n receives a state_changed event for entity e: its new state is
\* stored when the entity is tracked; for an entity that was removed the
\* new state is null and nothing is stored.
StateEvent(n, e, st, removed) ==
    /\ n \in 1 .. Len(conn.socks)
    /\ conn.socks[n].st = "authed"
    /\ conn.pushes < MaxPushes
    /\ ~navReady
    /\ entityStates' = IF removed THEN entityStates
                       ELSE handleStateChanged(entityStates, subscribed, e, st)
    /\ conn' = [Now EXCEPT !.pushes = @ + 1,
                           !.got = IF removed THEN << >> ELSE [x \in {e} |-> st],
                           !.ev = "event"]
    /\ UNCHANGED <<appVars, subscribed>>

\* A Home Assistant action is handed to the client: callService(service).
CallService ==
    /\ conn.calls < MaxCalls
    /\ conn' = [callService(Now) EXCEPT !.calls = @ + 1, !.ev = "call"]
    /\ UNCHANGED <<appVars, subscribed, entityStates>>

\* The tracker and the client after construction, with or without a token.
InitConn ==
    /\ persisted = [exists |-> FALSE, doc |-> NoDoc]
    /\ conn \in {NoConnection, [NoConnection EXCEPT !.token = FALSE]}
    /\ Fresh

ServerStates == [Entities -> {StOff, StOn}]

NextConn ==
    \/ Connect
    \/ TimerFires
    \/ \E n \in 1 .. MaxSockets : AuthOk(n)
    \/ \E n \in 1 .. MaxSockets, how \in {"error", "close"} : Break(n, how)
    \/ \E n \in 1 .. MaxSockets : ErrorEvent(n)
    \/ \E n \in 1 .. MaxSockets : CloseEvent(n)
    \/ Disconnect
    \/ \E cfg \in {emptyConfig, CfgA, CfgB} : UpdateTracked(cfg)
    \/ \E n \in 1 .. MaxSockets, snapshot \in ServerStates : Result(n, snapshot)
    \/ \E n \in 1 .. MaxSockets, e \in Entities, st \in {StOff, StOn}, removed \in BOOLEAN :
          StateEvent(n, e, st, removed)
    \/ CallService

\* The event loop runs a timer that is due and delivers the events of a
\* socket; a server that is reached answers the authentication and the
\* requests made on a connection that stays up.
SpecConn ==
    /\ InitConn /\ [][NextConn]_vars
    /\ WF_vars(TimerFires)
    /\ WF_vars(\E n \in 1 .. MaxSockets : AuthOk(n))
    /\ WF_vars(\E n \in 1 .. MaxSockets : ErrorEvent(n))
    /\ WF_vars(\E n \in 1 .. MaxSockets : CloseEvent(n))
    /\ WF_vars(\E n \in 1 .. MaxSockets, snapshot \in ServerStates : Result(n, snapshot))

\* ------------------------------------------------------------------ claims
\* The buffers button b can be drawn with: its effective config under no
\* state or under any pushed state of its entity, the icon fetched or not.
ImagesOf(b) ==
    {renderButtonToBuffer(getEffectiveConfig(b, << >>), f) : f \in BOOLEAN}
    \cup {renderButtonToBuffer(getEffectiveConfig(b, [e \in {TrackedEntityOf(b)} |-> st]), f) :
            f \in BOOLEAN, st \in PushedStates}

\* Every key of the device shows page p of cfg: its button's image, or nothing.
ShowsPage(cfg, p) ==
    \A k \in Keys :
        IF \E b \in ButtonsOf(cfg, p) : b.key = k
        THEN \E b \in ButtonsOf(cfg, p) : b.key = k /\ device[k] \in ImagesOf(b)
        ELSE device[k] = Blank

IsUnknownNavigate(btn, cfg) ==
    btn.action.type = "navigate" /\ btn.action.page \notin PagesOf(cfg)

\* C1: a page render superseded by a later navigation writes nothing more to
\* the device, and once the overlapping renders have finished the device
\* shows the page that is current.
C1_LastNavigateWins ==
    /\ \A n \in 1 .. Len(io) : ~io[n].stale
    /\ (tasks = << >> /\ last.ev = "step" /\ last.overlapped) => ShowsPage(config, currentPage)

C3_ActsOnKeyIndex ==
    last.ev = "press" =>
        /\ last.btn = last.keyed
        /\ (last.keyed = NoButton \/ last.keyed.action = NoAction)
              => (currentPage = last.page /\ io = << >> /\ last.ret = NoAction)

\* C4: of two requests for one hash only the first rasterizes: no two
\* handlers are rasterizing the same hash, and a key is only ever filled with
\* the buffer its hash's cache slot holds.
C4_SecondRequestHits ==
    /\ \A m, n \in 1 .. Len(tasks) :
          (m # n /\ tasks[m].pc = "raster" /\ tasks[n].pc = "raster")
              => getButtonHash(tasks[m].eff) # getButtonHash(tasks[n].eff)
    /\ \A n \in 1 .. Len(io) :
          (io[n].op = "fill" /\ io[n].kind \in {"page", "key"})
              => \E h \in DOMAIN cache : cache[h] = io[n].img

\* C5: a single-key re-render started by a state push only writes the image
\* of a button of the page that is current when it writes.
C5_KeyRenderOnCurrentPage ==
    \A n \in 1 .. Len(io) :
        (io[n].kind = "key" /\ io[n].op = "fill") => io[n].btn \in ButtonsOf(config, currentPage)

\* C6: a state change for a tracked entity is stored as its latest value; the
\* handling writes only keys of buttons of the current page that track the
\* entity, each with a buffer of its effective config, and clears nothing;
\* without a tracking button on the page it makes no device call; and a
\* single-key render only ever fills its own button's key.
C6_StateChangeFrame ==
    /\ (last.ev = "state" /\ last.entity \in subscribed)
          => (last.entity \in DOMAIN entityStates /\ entityStates[last.entity] = last.st)
    /\ last.ev = "state" =>
          \A n \in 1 .. Len(io) :
              /\ io[n].op = "fill"
              /\ io[n].btn \in ButtonsOf(config, currentPage)
              /\ io[n].btn.useEntityState /\ TrackedEntityOf(io[n].btn) = last.entity
              /\ io[n].key = io[n].btn.key
              /\ io[n].img \in {renderButtonToBuffer(getEffectiveConfig(io[n].btn, entityStates), f) :
                                  f \in BOOLEAN}
    /\ (last.ev = "state" /\ TrackingButtons(config, currentPage, last.entity) = << >>)
          => (io = << >> /\ last.spawned = 0)
    /\ \A n \in 1 .. Len(io) :
          io[n].kind = "key" =>
              /\ io[n].op = "fill"
              /\ io[n].key = io[n].btn.key
              /\ io[n].btn.useEntityState
              /\ io[n].img \in ImagesOf(io[n].btn)

\* C6 witness: the lamp's button was re-rendered on its key with the
\* red state that was pushed.
C6_Witness ==
    /\ LightA \in DOMAIN entityStates
    /\ entityStates[LightA] = StRed
    /\ \E n \in 1 .. Len(io) :
          /\ io[n].kind = "key" /\ io[n].op = "fill" /\ io[n].btn = bLamp
          /\ io[n].img = renderButtonToBuffer(getEffectiveConfig(bLamp, entityStates), TRUE)

\* C7: a config/set payload without a pages map changes neither the cache
\* file, the active config, currentPage, the tracked entities, the brightness,
\* the keys nor the handlers in flight, and makes no device call.
C7_RejectedBeforeSideEffect ==
    [][(last'.ev = "config" /\ ~last'.payload.hasPages)
          => (/\ UNCHANGED <<persisted, config, currentPage, subscribed, brightness, device,
                             cache, tasks, entityStates>>
              /\ io' = << >>)]_vars

\* C7 witness: a parsed payload without pages was rejected with an error
\* while config CfgA was active and rendered.
C7_Witness ==
    /\ last.ev = "config"
    /\ last.payload.parses /\ ~last.payload.hasPages
    /\ config = CfgA
    /\ last.acked /\ acks[Len(acks)].status = "error"

\* C8: when 'applied' is published for a config, the cache file holds it, the
\* tracked entities are those of it, the brightness it gives is set,
\* currentPage is 'default' and the device shows its default page.
C8_AppliedMeansApplied ==
    (last.acked /\ acks[Len(acks)].status = "applied") =>
        LET cfg == acks[Len(acks)].configHash
        IN  /\ persisted = [exists |-> TRUE, doc |-> cfg]
            /\ config = cfg
            /\ subscribed = updateTrackedEntities(cfg)
            /\ cfg.brightness # -1 => brightness = cfg.brightness
            /\ currentPage = "default"
            /\ ShowsPage(cfg, "default")

\* C9: every config/set payload received has been acknowledged once, or its
\* acknowledgment is still owed by a handler in flight.
C9_EveryPayloadAcked ==
    received = Len(acks) + Cardinality({n \in 1 .. Len(tasks) : tasks[n].cont = "ack"})

\* C10: with no config being applied, the cache file holds the config of the
\* latest 'applied' acknowledgment; before any, it is as the program found it.
C10_PersistedIsLastApplied ==
    (\A n \in 1 .. Len(tasks) : tasks[n].cont # "ack") =>
        LET applied == SelectSeq(acks, LAMBDA a : a.status = "applied")
        IN  IF applied = << >>
            THEN persisted \in {[exists |-> FALSE, doc |-> NoDoc], [exists |-> TRUE, doc |-> CfgA]}
            ELSE persisted = [exists |-> TRUE, doc |-> applied[Len(applied)].configHash]

\* C11: when applyConfig fails in updateConfig after the config has been saved,
\* the failure is acknowledged with status error, a message and the hash of
\* the attempted config, and the saved document is still the attempted one.
C11_FailureReportedNotRolledBack ==
    (last.ev = "config" /\ last.thrown)
        => /\ last.acked
           /\ acks[Len(acks)].status = "error"
           /\ acks[Len(acks)].error # ""
           /\ acks[Len(acks)].configHash = last.payload.doc
           /\ last.written => persisted = [exists |-> TRUE, doc |-> last.payload.doc]

C11_Witness ==
    /\ last.ev = "config" /\ last.thrown /\ last.written
    /\ acks # << >> /\ acks[Len(acks)].status = "error"
    /\ persisted.doc = CfgC

\* C12: with key 0 of the default page leading to 'system' and key 0 of the
\* system page leading back, the page is 'default' before the first press,
\* every press of key 0 moves to the other page, and nothing else moves it.
OtherPage(p) == IF p = "default" THEN "system" ELSE "default"

C12_PressesAlternate ==
    /\ [](config = CfgD /\ events = 0 => currentPage = "default")
    /\ [][config = CfgD /\ listening
            => currentPage' = IF events' = events + 1 /\ last'.ev = "press" /\ last'.key = 0
                              THEN OtherPage(currentPage)
                              ELSE currentPage]_vars

C12_Witness ==
    /\ config = CfgD /\ last.ev = "press" /\ last.key = 0 /\ events = 3
    /\ last.page = "default" /\ currentPage = "system"
    /\ last.was.action = Navigate("default")

\* The command of the key press handled last, "" when the last event is no
\* press of a command key.
PressedCommand ==
    IF last.ev = "press" /\ last.btn.action.type = "command" THEN last.btn.action.command
    ELSE ""
PressedValue == last.btn.action.value

Moved(from, by, to) ==
    \/ to = from + by
    \/ from + by > 100 /\ to = 100
    \/ from + by < 0 /\ to = 0

KnownCommands ==
    {"clear", "brightness_up", "brightness_down", "set_brightness", "lcd_on", "lcd_off"}

C16_UnknownCommandIgnored ==
    /\ []((PressedCommand # "" /\ PressedCommand \notin KnownCommands) => listening)
    /\ [][(/\ events' = events + 1
            /\ last'.btn.action.type = "command"
            /\ last'.btn.action.command \notin KnownCommands)
           => (/\ UNCHANGED <<currentPage, brightness, previousBrightness, device, cache, tasks>>
               /\ io' = << >>)]_vars

C16_Witness ==
    /\ last.ev = "press" /\ last.was.action = Command("reboot")
    /\ PressedCommand = "brightness_up" /\ brightness = last.level + 10

\* C17: a button without colour, icon and text is never written to the
\* device: no fillKeyBuffer is issued for it.
IsBare(b) == b.key # -1 /\ b.text = "" /\ b.icon = NoIcon /\ b.color = NoColor

C17_BareSpecNotWritten ==
    \A n \in 1 .. Len(io) : io[n].op = "fill" => ~IsBare(io[n].btn)

\* C18: the tracked set is exactly the ids e for which some button of some
\* page of the config in force tracks state and has e as its stateEntity or,
\* without one, as the entity of its Home Assistant action; an id tracked
\* only under an earlier config is not in it.
Tracks(b, e) ==
    /\ b.useEntityState
    /\ IF b.stateEntity # NoEntity THEN e = b.stateEntity
       ELSE b.action.type = "ha" /\ e = Entity(b.action.domain, b.action.name)

C18_TrackedSetExact ==
    navReady =>
        /\ subscribed \subseteq Entities
        /\ \A e \in Entities :
              e \in subscribed
                <=> \E p \in DOMAIN config.pages :
                      \E n \in 1 .. Len(config.pages[p]) : Tracks(config.pages[p][n], e)

C18_Witness ==
    /\ navReady /\ last.ev = "config" /\ config = CfgB
    /\ subscribed = {SwitchB}
    /\ LightA \in DOMAIN entityStates

\* C19: while the tracker is not shut down, the close of a connection leaves
\* a reconnect timer of 5 seconds armed, a failed attempt of the timer leaves
\* one armed too, and from every state in which the tracker is started and
\* not connected a connection is established again, or the tracker shut down.
C19_ReconnectsUntilConnected ==
    /\ []((conn.ev \in {"close", "error"} /\ ~conn.shut /\ ~conn.isConnected)
            => (conn.timer = Backoff \/ \E n \in 1 .. Len(conn.socks) :
                                           conn.socks[n].st \in {"connecting", "closing"}))
    /\ []((conn.ev = "close" /\ ~conn.shut) => conn.timer = Backoff)
    /\ ((conn.token /\ conn.started /\ ~conn.isConnected /\ ~conn.shut)
          ~> (conn.isConnected \/ conn.shut))

C19_Witness ==
    /\ conn.ev = "authok" /\ conn.isConnected /\ ~conn.shut
    /\ conn.faults = MaxFaults /\ conn.timer = 0

\* C20: after disconnect() no reconnect timer is armed.
C20_NoTimerAfterDisconnect == conn.shut => conn.timer = 0

C29_SubscribesOnAuth ==
    conn.ev = "authok" =>
        conn.out = IF subscribed # {} THEN <<"subscribe_events", "get_states">> ELSE << >>

C29_Witness ==
    /\ conn.ev = "authok" /\ conn.faults > 0 /\ subscribed # {}
    /\ conn.out = <<"subscribe_events", "get_states">>

\* C30: after a config change made while the tracker is connected, every
\* tracked entity gets a value in the latest-value map, with no entity
\* changing state, unless the tracker is shut down.
C30_TrackedGetValues ==
    (conn.ev = "update" /\ conn.isConnected /\ ~conn.shut)
        ~> (subscribed \subseteq DOMAIN entityStates \/ conn.shut)

Undisturbed(t) == t.kind = "page" /\ ~t.stale /\ ~t.overlapped

C28_ClearThenAscending ==
    /\ \A n \in 1 .. Len(tasks) :
          (Undisturbed(tasks[n]) /\ tasks[n].pc \in {"btn", "raster"})
              => \A i, j \in 1 .. Len(tasks[n].btns) :
                    (i < j /\ j <= tasks[n].i)
                        => tasks[n].btns[i].key < tasks[n].btns[j].key
    /\ (last.ev = "step" /\ last.ret.type = "page" /\ last.ret.command = "btn"
          /\ last.btn = NoButton /\ ~last.overlapped)
          => \A k \in 0 .. NumKeys - 1 :
                IF \E b \in ButtonsOf(config, currentPage) : b.key = k
                THEN \E b \in ButtonsOf(config, currentPage) :
                        b.key = k /\ device[k] \in ImagesOf(b)
                ELSE device[k] = Blank

\* C27: an entry of the render cache is never removed and never written
\* again: every step leaves each hash the cache holds in the cache, with the
\* buffer it had, and stores at most the one buffer of a hash it did not hold.
C27_CacheWriteOnce ==
    [][\A h \in DOMAIN cache : h \in DOMAIN cache' /\ cache'[h] = cache[h]]_vars

\* C23: a press whose action is a service call, a publish or a command is
\* handed back to the caller as it is: the page stays, no page render is
\* started and no key is written by a render; a navigate action is consumed
\* and nothing is handed back.
C23_CollaboratorActionReturned ==
    last.ev = "press" =>
        /\ last.btn.action.type \in {"ha", "mqtt", "command"}
              => /\ last.ret = last.btn.action
                 /\ currentPage = last.page
                 /\ \A i \in 1 .. Len(io) : io[i].kind \notin {"page", "key"}
                 /\ last.spawned = 0 \/ IsClear(last.btn.action)
                 /\ last.btn.action.type # "command" => io = << >>
        /\ last.btn.action.type = "navigate" => last.ret = NoAction

C23_Witness ==
    /\ last.ev = "press" /\ last.btn.action = Ha("light", "a") /\ last.ret = Ha("light", "a")
    /\ last.was.action = Mqtt("lamp/set")
    /\ currentPage = "default" /\ io = << >>

\* C24: each keyDown publishes one 'pressed' state of its key, before
\* anything the action publishes, and each keyUp one 'released' state and
\* nothing else, with or without a button or an action on the key.
C24_OneNoticePerKeyEvent ==
    /\ last.ev = "press"
          => /\ Len(last.pubs) = IF last.btn.action.type = "mqtt" THEN 2 ELSE 1
             /\ Len(last.pubs) >= 1
                   => last.pubs[1] = [key |-> last.key, topic |-> "key/state",
                                      payload |-> "pressed"]
             /\ Cardinality({i \in 1 .. Len(last.pubs) : last.pubs[i].topic = "key/state"}) = 1
             /\ Len(last.pubs) = 2 => last.pubs[2].topic = last.btn.action.name
    /\ last.ev = "release"
          => last.pubs = <<[key |-> last.key, topic |-> "key/state", payload |-> "released"]>>

C24_Witness ==
    /\ last.ev = "release" /\ last.key = 1 /\ config = CfgD /\ events = 3
    /\ last.pubs = <<[key |-> 1, topic |-> "key/state", payload |-> "released"]>>
    /\ PressedButton(config, currentPage, 1) = NoButton

\* The state the tracker holds for the light, and whether it is on.
LightOn == LightA \in DOMAIN entityStates /\ entityStates[LightA].state = "on"
Reported == IF LightA \in DOMAIN entityStates THEN entityStates[LightA] ELSE StOff

\* The colour the light reports: rgb_color, else hs_color converted, else
\* the bucket of color_temp.
ReportedColour ==
    IF Reported.rgb_color # NoRgb THEN Reported.rgb_color
    ELSE IF Reported.hs_color # NoRgb
    THEN hsToRgb(Reported.hs_color[1], Reported.hs_color[2])
    ELSE colorTempToRgb(Reported.color_temp)
HasColour ==
    Reported.rgb_color # NoRgb \/ Reported.hs_color # NoRgb \/ Reported.color_temp # 0

\* c times max(0.3, brightness/255), or c times 1, rounded to the nearest
\* integer and kept within 0..255.
Tinted(c) ==
    LET v == IF Reported.brightness < 0 THEN c
             ELSE IF 10 * Reported.brightness >= 3 * 255
             THEN (2 * c * Reported.brightness + 255) \div 510
             ELSE (6 * c + 10) \div 20
    IN  IF v > 255 THEN 255 ELSE IF v < 0 THEN 0 ELSE v

\* C25: for a light that is on and reports a colour, each channel of the
\* background of its button is the channel of that colour times the
\* brightness factor, rounded and limited to 0..255; red at brightness 128
\* is within one unit of #7F0000, with no green and no blue.
C25_BackgroundTinted ==
    (LightOn /\ HasColour)
        => /\ ParseHex(getEffectiveConfig(bLamp, entityStates).color)
                = <<Tinted(ReportedColour[1]), Tinted(ReportedColour[2]),
                    Tinted(ReportedColour[3])>>
           /\ Reported = StRed
                 => LET bg == ParseHex(getEffectiveConfig(bLamp, entityStates).color)
                    IN  bg[1] \in 126 .. 128 /\ bg[2] = 0 /\ bg[3] = 0

C25_Witness ==
    /\ LightOn /\ Reported = StRed
    /\ last.ev = "step" /\ last.btn = bLamp
    /\ device[1].bg = <<128, 0, 0>>

\* C26: the background of the button of a light that is on is never
\* #000000, whatever brightness and colour the light reports.
C26_NeverDark ==
    LightOn => getEffectiveConfig(bLamp, entityStates).color # Black

\* The sockets that are connecting or open.
LiveSockets == {n \in 1 .. Len(conn.socks) : conn.socks[n].st \in {"connecting", "authed"}}

\* C31: at any time at most one WebSocket of the tracker is connecting or
\* open.
C31_OneSocket == Cardinality(LiveSockets) <= 1

\* C40: at most one reconnect timeout is pending at any time, and a close
\* event, an error event or a failed attempt that finds the timer armed
\* leaves it as it is.
C40_OneTimer ==
    /\ [](conn.armed <= 1 /\ (conn.armed = 1 <=> conn.timer # 0))
    /\ [][(conn.timer # 0 /\ conn'.ev \in {"close", "error"})
            => (conn'.timer = conn.timer /\ conn'.armed = conn.armed)]_vars

C40_Witness ==
    /\ conn.ev = "close" /\ conn.held /\ conn.timer = Backoff /\ conn.armed = 1
    /\ conn.faults = 2

\* The application of the active configuration failed and was reported.
ApplyFailed ==
    \E i \in 1 .. Len(acks) : acks[i].status = "error" /\ acks[i].configHash = config

KnownSpecs ==
    {getEffectiveConfig(b, entityStates) :
        b \in UNION {ButtonsOf(c, p) : c \in {CfgA, CfgB, CfgD}, p \in {"default", "system"}}}
Outcomes(eff) == IF Fetches(eff) THEN BOOLEAN ELSE {TRUE}

\* C33: the hash substitutes the defaults the drawing substitutes and leaves
\* out no field the drawing reads: two specs with one hash are drawn alike,
\* and the buffer the cache holds under a hash is what a render of any spec
\* with that hash produces (for an icon that is fetched, with the fetch
\* ending as it did).
C33_HashCoversPixels ==
    /\ \A e1, e2 \in KnownSpecs :
          getButtonHash(e1) = getButtonHash(e2)
              => \A f \in BOOLEAN : renderButtonToBuffer(e1, f) = renderButtonToBuffer(e2, f)
    /\ \A e \in KnownSpecs :
          getButtonHash(e) \in DOMAIN cache
              => \E f \in Outcomes(e) : cache[getButtonHash(e)] = renderButtonToBuffer(e, f)

C33_Witness ==
    /\ config = CfgA /\ currentPage = "default" /\ bBack.color # bMenu.color
    /\ getButtonHash(bBack) \in DOMAIN cache
    /\ cache[getButtonHash(bBack)] = renderButtonToBuffer(bBack, TRUE)

\* The entity a button tracks has no known state, or is off, unavailable or
\* unknown.
Dark(b) ==
    \/ TrackedEntityOf(b) \notin DOMAIN entityStates
    \/ entityStates[TrackedEntityOf(b)].state \in {"off", "unavailable", "unknown"}

Weighted(c) == 299 * c[1] + 587 * c[2] + 114 * c[3]

\* The luminance of the reported colour times the brightness factor
\* exceeds 0.5.
TintIsBright ==
    IF Reported.brightness < 0 THEN 2 * Weighted(ReportedColour) > 255000
    ELSE IF 10 * Reported.brightness >= 3 * 255
    THEN 2 * Reported.brightness * Weighted(ReportedColour) > 255000 * 255
    ELSE 6 * Weighted(ReportedColour) > 2550000

\* C35: for a light that is on and reports a colour, icon and text colour
\* are equal, and are black exactly when the luminance of the reported
\* colour times the brightness factor, taken before the rounding of the
\* channels, exceeds 0.5, and white otherwise.
C35_ContrastByTintLuminance ==
    (LightOn /\ HasColour)
        => /\ getEffectiveConfig(bLamp, entityStates).iconColor
                = getEffectiveConfig(bLamp, entityStates).textColor
           /\ getEffectiveConfig(bLamp, entityStates).iconColor
                = IF TintIsBright THEN Black ELSE White

C35_Witness ==
    /\ LightOn /\ Reported.hs_color = <<200, 50>> /\ Reported.brightness = 128
    /\ getEffectiveConfig(bLamp, entityStates).iconColor = White
    /\ last.ev = "step" /\ last.btn = bLamp /\ device[1].tint = <<255, 255, 255>>

\* C35 as stated: black exactly when the luminance of the resulting
\* background, with its rounded channels, exceeds 0.5.
C35_ContrastByBackground ==
    (LightOn /\ HasColour)
        => (getEffectiveConfig(bLamp, entityStates).iconColor = Black
              <=> 2 * Weighted(ParseHex(getEffectiveConfig(bLamp, entityStates).color))
                     > 255000)

\* C36: the latest-value map changes only by a state_changed event with a
\* new state or by an entry of a get_states result, for an entity that is
\* tracked; the entry is then the state the message carried, and no entry
\* is ever removed, whatever the config changes, disconnects and reconnects.
C36_MapFollowsPushes ==
    [][/\ DOMAIN entityStates \subseteq DOMAIN entityStates'
       /\ \A e \in DOMAIN entityStates' :
             (e \notin DOMAIN entityStates \/ entityStates'[e] # entityStates[e])
                 => /\ conn'.ev \in {"event", "result"}
                    /\ e \in subscribed /\ e \in DOMAIN conn'.got
       /\ conn'.ev \in {"event", "result"}
             => \A e \in DOMAIN conn'.got \cap subscribed :
                   e \in DOMAIN entityStates' /\ entityStates'[e] = conn'.got[e]]_vars

C36_Witness ==
    /\ conn.shut /\ subscribed = {SwitchB}
    /\ DOMAIN entityStates = {LightA} /\ entityStates[LightA] = StOn

\* getEffectiveConfig computes the effective spec of button b from the
\* state of entity e: the spec differs with what is known of e.
Uses(b, e) == getEffectiveConfig(b, [x \in {e} |-> StOn]) # getEffectiveConfig(b, << >>)
AllButtons(cfg) == UNION {ButtonsOf(cfg, p) : p \in PagesOf(cfg)}

IsPlaceholder(h) == h \in DOMAIN cache /\ Fetches(h) /\ cache[h].icon = NoIcon

\* C38: once a failed icon fetch or decode has left the placeholder in the
\* cache under the hash of a spec, the placeholder is what every later
\* render of that hash returns: the entry never changes again.
C38_PlaceholderKept ==
    [][\A h \in DOMAIN cache :
          IsPlaceholder(h) => h \in DOMAIN cache' /\ cache'[h] = cache[h]]_vars

\* ------------------------------------------------- the config editor's views
\* The editor holds the configuration it loaded in `config`, the view it
\* shows in `currentPage` (currentView), and the text of the new-view box is
\* an input of createView: a sequence of pieces, each a word or a blank.
MaxTyped == 3
MaxViews == 3
Space == " "
Pieces == {"Default", "aux", Space}
Typed == UNION {[1 .. n -> Pieces] : n \in 0 .. MaxTyped}

\* String.prototype.trim
RECURSIVE trimStart(_)
trimStart(s) == IF s # << >> /\ s[1] = Space THEN trimStart(Tail(s)) ELSE s
RECURSIVE trimEnd(_)
trimEnd(s) ==
    IF s # << >> /\ s[Len(s)] = Space THEN trimEnd(SubSeq(s, 1, Len(s) - 1)) ELSE s
trim(s) == trimEnd(trimStart(s))

\* String.prototype.toLowerCase, piece by piece
lowerPiece(w) == IF w = "Default" THEN "default" ELSE w
toLowerCase(s) == [n \in 1 .. Len(s) |-> lowerPiece(s[n])]

\* replace(/\s+/g, '_'): every run of blanks becomes one underscore
RECURSIVE replaceBlanks(_)
replaceBlanks(s) ==
    IF s = << >> THEN << >>
    ELSE IF s[1] # Space THEN <<s[1]>> \o replaceBlanks(Tail(s))
    ELSE <<"_">> \o replaceBlanks(trimStart(s))

\* The text the pieces spell.
RECURSIVE spell(_)
spell(s) == IF s = << >> THEN "" ELSE s[1] \o spell(Tail(s))

views(cfg) == PagesOf(cfg)
viewNameOf(typed) == spell(replaceBlanks(toLowerCase(trim(typed))))

\* createView: nothing for an empty name or the name of a view; otherwise
\* the normalised name is given an empty button list and is shown.
createViewRefused(cfg, typed) == trim(typed) = << >> \/ spell(trim(typed)) \in views(cfg)
createView(cfg, typed) ==
    IF createViewRefused(cfg, typed) THEN cfg
    ELSE [cfg EXCEPT !.pages = [p \in DOMAIN @ \cup {viewNameOf(typed)} |->
                                    IF p = viewNameOf(typed) THEN << >> ELSE @[p]]]

\* deleteView: nothing for 'default' or the last view; otherwise the view
\* is taken out of the pages.
deleteViewRefused(cfg, viewName) == viewName = "default" \/ Cardinality(views(cfg)) <= 1
deleteView(cfg, viewName) ==
    IF deleteViewRefused(cfg, viewName) THEN cfg
    ELSE [cfg EXCEPT !.pages = [p \in DOMAIN @ \ {viewName} |-> @[p]]]

editorRest == <<deviceReady, navReady, listening, persisted, subscribed, entityStates, cache,
                device, brightness, previousBrightness, tasks, acks, received, events, io,
                conn>>

CreateView(typed) ==
    /\ Cardinality(views(createView(config, typed))) <= MaxViews
    /\ config' = createView(config, typed)
    /\ currentPage' = IF createViewRefused(config, typed) THEN currentPage
                      ELSE viewNameOf(typed)
    /\ last' = [Event("createView") EXCEPT !.page = spell(typed),
                                           !.written = ~createViewRefused(config, typed)]
    /\ UNCHANGED editorRest

DeleteView(viewName) ==
    /\ viewName \in views(config)
    /\ config' = deleteView(config, viewName)
    /\ currentPage' = IF ~deleteViewRefused(config, viewName) /\ currentPage = viewName
                      THEN "default" ELSE currentPage
    /\ last' = [Event("deleteView") EXCEPT !.page = viewName,
                                           !.written = ~deleteViewRefused(config, viewName)]
    /\ UNCHANGED editorRest

\* The view tabs: a click shows the view.
SelectView(viewName) ==
    /\ viewName \in views(config)
    /\ currentPage' = viewName
    /\ last' = [Event("selectView") EXCEPT !.page = viewName]
    /\ UNCHANGED <<config, editorRest>>

\* The editor once the configuration of the device is loaded: the one the
\* server returned, or the empty one when it returned none.
LoadedConfigs == {[brightness |-> 80, pages |-> [default |-> << >>]], CfgA, CfgB, CfgD}

InitEditor ==
    /\ persisted = [exists |-> FALSE, doc |-> NoDoc]
    /\ conn = NoConnection
    /\ deviceReady = FALSE /\ navReady = FALSE /\ listening = FALSE
    /\ config \in LoadedConfigs
    /\ currentPage = "default"
    /\ subscribed = {} /\ entityStates = << >> /\ cache = << >>
    /\ device = [k \in Keys |-> Blank]
    /\ brightness = -1 /\ previousBrightness = -1
    /\ tasks = << >> /\ acks = << >> /\ received = 0 /\ events = 0 /\ io = << >>
    /\ last = Event("init")

NextEditor ==
    \/ \E typed \in Typed : CreateView(typed)
    \/ \E viewName \in views(config) : DeleteView(viewName)
    \/ \E viewName \in views(config) : SelectView(viewName)

SpecEditor == InitEditor /\ [][NextEditor]_vars

\* C39: createView never changes the button list of a view that already
\* exists and deleteView never removes the 'default' view: over every step
\* of createView and deleteView a configuration with a 'default' page keeps
\* one, createView keeps every view, and every view that stays keeps its
\* buttons.
C39_ViewsKept ==
    [][("default" \in views(config) /\ last'.ev \in {"createView", "deleteView"})
         => /\ "default" \in views(config')
            /\ last'.ev = "createView" => views(config) \subseteq views(config')
            /\ \A p \in views(config) \cap views(config') :
                  config'.pages[p] = config.pages[p]]_vars

====
